---- MODULE Spec2Model ----
(***************************************************************************)
(* A model of opencog/persist/cog-simple/CogSimpleStorage.cc: the session  *)
(* (socket handle, connect mutex), open/close/connected, and the framing   *)
(* of do_send/do_recv.  Several threads call the methods of one            *)
(* CogSimpleStorage object; the kernel's descriptor table and the peer     *)
(* are the environment.                                                    *)
(*                                                                         *)
(* Spec      the callers against a peer that may send anything;            *)
(* StubSpec  the same callers against the stub server of the end-to-end    *)
(*           scenario;                                                     *)
(* ParseSpec the constructor with any identifier, and open() up to         *)
(*           getaddrinfo().                                                *)
(***************************************************************************)
EXTENDS Integers, Sequences, FiniteSets, TLC

\* ------------------------------------------------------------ bounds
NumThreads == 2   \* threads calling into the one session
NumFds == 2       \* descriptors the process may still create
MaxReads == 3     \* recv() calls followed within one do_recv()
MaxSent == 2      \* messages followed on one connection
MaxName == 5      \* characters of an identifier after its first part

\* ------------------------------------------------- program constants
Unconnected == -1   \* _sockfd(-1) in the constructor, _sockfd = -1 in close()
PeerGone == 0       \* _sockfd = 0 after a zero-length read
FirstFd == 3        \* lowest descriptor socket() can return (0,1,2 are stdio)
ChunkSize == 4096   \* recv(_sockfd, buf, 4096, 0)
NUL == 0            \* buf[len] = 0 and the end of a C string
NL == 10            \* '\n'
SYN == 22           \* 0x16, synchronous idle
npos == -1          \* std::string::npos: find() found nothing

Threads == 1..NumThreads
NoThread == 0
Fds == FirstFd..(FirstFd + NumFds - 1)

\* ------------------------------------------------------------- text
\* A byte string is a sequence of runs [b |-> byte, n |-> count], no two
\* neighbouring runs of the same byte, so that equal strings are equal values.
Run(b, n) == [b |-> b, n |-> n]

AppendRun(s, r) ==
    IF s # <<>> /\ s[Len(s)].b = r.b
    THEN [s EXCEPT ![Len(s)].n = @ + r.n]
    ELSE Append(s, r)

RECURSIVE Cat(_, _)
Cat(s, t) == IF t = <<>> THEN s ELSE Cat(AppendRun(s, Head(t)), Tail(t))

RECURSIVE TextLen(_)
TextLen(s) == IF s = <<>> THEN 0 ELSE Head(s).n + TextLen(Tail(s))

FirstByte(s) == s[1].b
LastByte(s) == s[Len(s)].b

\* std::string(const char*): the bytes of buf before its first NUL
\* (buf[len] = 0 ends it at the latest).
RECURSIVE c_str(_)
c_str(buf) ==
    IF buf = <<>> \/ Head(buf).b = NUL THEN <<>>
    ELSE <<Head(buf)>> \o c_str(Tail(buf))

\* The first k bytes of s, and s without them.
RECURSIVE Take(_, _)
Take(s, k) ==
    IF k = 0 \/ s = <<>> THEN <<>>
    ELSE IF Head(s).n <= k THEN <<Head(s)>> \o Take(Tail(s), k - Head(s).n)
    ELSE <<Run(Head(s).b, k)>>

RECURSIVE Drop(_, _)
Drop(s, k) ==
    IF k = 0 \/ s = <<>> THEN s
    ELSE IF Head(s).n <= k THEN Drop(Tail(s), k - Head(s).n)
    ELSE <<Run(Head(s).b, Head(s).n - k)>> \o Tail(s)

\* ------------------------------------------------------ identifiers
\* An identifier is a sequence of characters; positions count from 0 as in
\* std::string.
cog == <<"c", "o", "g", ":", "/", "/">>
URIX_LEN == Len(cog)
DEFAULT_COGSERVER_PORT == <<"1", "7", "0", "0", "1">>

Smallest(S) == CHOOSE i \in S : \A j \in S : i <= j

\* s.find_first_of(cs, from), s.find(c, from) with cs = {c}
find_first_of(s, cs, from) ==
    LET at == {i \in from..(Len(s) - 1) : s[i + 1] \in cs}
    IN IF at = {} THEN npos ELSE Smallest(at)

\* s.substr(pos, n) and s.substr(pos)
substr(s, pos, n) == SubSeq(s, pos + 1, IF pos + n < Len(s) THEN pos + n ELSE Len(s))
substr_from(s, pos) == SubSeq(s, pos + 1, Len(s))

\* strncmp(a, b, n) of two C strings: 0 if they agree on their first n characters
strncmp(a, b, n) == IF substr(a, 0, n) = substr(b, 0, n) THEN 0 ELSE 1

\* host cut at the first '/' only.
host_to_slash(u) ==
    LET h == substr_from(u, URIX_LEN)
        slash == find_first_of(h, {"/"}, 0)
    IN IF npos # slash THEN substr(h, 0, slash) ELSE h

\* std::string host(uri + URIX_LEN); slash = host.find_first_of(":/");
\* if (npos != slash) host = host.substr(0, slash);
host(u) ==
    LET h == substr_from(u, URIX_LEN)
        slash == find_first_of(h, {":", "/"}, 0)
    IN IF npos # slash THEN substr(h, 0, slash) ELSE h

\* port = "17001"; colon = _uri.find(':', URIX_LEN + host.length());
\* if (npos != colon) { port = _uri.substr(colon+1); slash = port.find('/');
\*                      if (npos != slash) port = port.substr(0, slash); }
port(u) ==
    LET colon == find_first_of(u, {":"}, URIX_LEN + Len(host(u)))
    IN IF npos # colon
       THEN LET p == substr_from(u, colon + 1)
                slash == find_first_of(p, {"/"}, 0)
            IN IF npos # slash THEN substr(p, 0, slash) ELSE p
       ELSE DEFAULT_COGSERVER_PORT

NoEndpoint == [host |-> <<>>, port |-> <<>>]
Endpoint(u) == [host |-> host(u), port |-> port(u)]

\* The identifier of the session whose calls are followed: cog://h/n
DefaultName == cog \o <<"h", "/", "n">>

\* The identifiers a constructor is tried with: with the scheme, with a
\* part of it, without it; then host, ':', '/' and digit characters.
Chars == {"h", ":", "/", "7"}
Names ==
    {p \o b : p \in {cog, <<"c", "o", "g", ":", "/">>, <<>>},
              b \in UNION {[1..k -> Chars] : k \in 0..MaxName}}

\* What one recv() of at most ChunkSize bytes can deliver.
IdleChunk == <<Run(SYN, 1)>>
ShortLine == <<Run(97, 1), Run(NL, 1)>>
Prompt == <<Run(62, 1)>>
FullRaw == <<Run(98, ChunkSize)>>
NulLine == <<Run(100, 1), Run(NUL, 1), Run(101, 1), Run(NL, 1)>>
NulPrompt == <<Run(62, 1), Run(NUL, 1), Run(32, 1)>>
Chunks == {IdleChunk, ShortLine, Prompt, FullRaw, NulLine, NulPrompt}

\* Commands: the handshake of open() and what callers send.
eval == "sexpr\n"
Cmds == {"ping\n"}

\* strlen(eval), str.size()
Size(msg) == IF msg = eval THEN 6 ELSE 5

\* What a call gave its caller: the outcome, the text returned, and the source
\* line of the return or throw; for do_send also the count send() returned.
NoResult == [outcome |-> "none", text |-> <<>>, line |-> 0, taken |-> 0]
Result(o, txt, ln) == [outcome |-> o, text |-> txt, line |-> ln, taken |-> 0]

VARIABLES
    sockfd,      \* _sockfd
    mtx,         \* _mtx: the thread holding it, or NoThread
    fdtab,       \* kernel: descriptor -> "free" | "created" | "established"
    wire,        \* kernel: descriptor -> what send() accepted on its latest socket
    pc,          \* thread -> where it is
    op,          \* thread -> the public method it is in
    garbage,     \* thread -> do_recv's argument
    first_time,  \* thread -> do_recv's local
    rb,          \* thread -> do_recv's local
    chunks,      \* thread -> the chunks recv() gave this do_recv() call so far
    result,      \* thread -> what the method returned or threw
    eofSeen,     \* a zero-length read happened and no open() succeeded since
    closed,      \* close() returned and open() was not called since
    opened,      \* open() set the handle and returned; the handle is as it left it
    ended,       \* a Connected session was ended and no socket was made since
    name,        \* _name: the identifier the constructor was given
    uri,         \* _uri
    made,        \* "new" | "ok" | "InvalidURI": how the constructor ended
    endpoint,    \* the host and port open() last handed to getaddrinfo()
    inbuf,       \* kernel: descriptor -> bytes the peer sent, not yet read
    served       \* stub server: descriptor -> commands it has answered

vars == <<sockfd, mtx, fdtab, wire, pc, op, garbage, first_time, rb, chunks,
          result, eofSeen, closed, opened, ended,
          name, uri, made, endpoint, inbuf, served>>

history == <<eofSeen, closed, opened, ended>>

session == <<sockfd, mtx, fdtab, wire>>
locals == <<garbage, first_time, rb, chunks>>
object == <<name, uri, made>>
peer == <<inbuf, served>>

\* The default of do_recv's parameter, from its declaration in
\* CogSimpleStorage.h: receive(expectGreeting=false).
DefaultGarbage == FALSE

connected(fd) == 0 < fd

Start ==
    /\ sockfd = Unconnected
    /\ mtx = NoThread
    /\ fdtab = [f \in Fds |-> "free"]
    /\ wire = [f \in Fds |-> <<>>]
    /\ pc = [t \in Threads |-> "idle"]
    /\ op = [t \in Threads |-> "none"]
    /\ garbage = [t \in Threads |-> FALSE]
    /\ first_time = [t \in Threads |-> TRUE]
    /\ rb = [t \in Threads |-> <<>>]
    /\ chunks = [t \in Threads |-> <<>>]
    /\ result = [t \in Threads |-> NoResult]
    /\ eofSeen = FALSE
    /\ closed = FALSE
    /\ opened = FALSE
    /\ ended = FALSE
    /\ endpoint = NoEndpoint
    /\ inbuf = [f \in Fds |-> <<>>]
    /\ served = [f \in Fds |-> 0]

\* The session after CogSimpleStorage("cog://h/n")
Init ==
    /\ Start
    /\ name = DefaultName
    /\ uri = DefaultName
    /\ made = "ok"

\* ------------------------------------------------------ constructor
\* _sockfd(-1); init(_name.c_str()):
\* if (strncmp(uri, "cog://", URIX_LEN)) throw ...; _uri = uri;
CogSimpleStorage ==
    /\ made = "new"
    /\ IF strncmp(name, cog, URIX_LEN) # 0
       THEN made' = "InvalidURI" /\ UNCHANGED uri
       ELSE made' = "ok" /\ uri' = name
    /\ UNCHANGED <<session, pc, op, locals, result, history, name, endpoint, peer>>

\* ------------------------------------------------------ the callers
\* Callers do not overlap send/receive/close with anything (the consumer's
\* discipline); only open() is called concurrently with open().
OthersIdle(t) == \A u \in Threads \ {t} : pc[u] = "idle"
OthersInOpen(t) == \A u \in Threads \ {t} : op[u] \in {"none", "open"}

Call(t, o, entry, g) ==
    /\ pc[t] = "idle"
    /\ made = "ok"
    /\ UNCHANGED <<object, endpoint, peer>>
    /\ IF o = "open" THEN OthersInOpen(t) ELSE OthersIdle(t)
    /\ pc' = [pc EXCEPT ![t] = entry]
    /\ op' = [op EXCEPT ![t] = o]
    /\ garbage' = [garbage EXCEPT ![t] = g]
    /\ closed' = IF o = "open" THEN FALSE ELSE closed
    /\ UNCHANGED <<session, first_time, rb, chunks, result, eofSeen, opened,
                   ended>>

call_open(t) == Call(t, "open", "open", FALSE)
call_close(t) == Call(t, "close", "close", FALSE)
call_do_send(t) == Call(t, "send", "do_send", FALSE)
call_do_recv(t) == \E g \in BOOLEAN : Call(t, "recv", "do_recv", g)

\* The method returns or throws: a lock_guard releases _mtx either way.
Finish(t, r) ==
    /\ pc' = [pc EXCEPT ![t] = "done"]
    /\ result' = [result EXCEPT ![t] = r]
    /\ mtx' = IF mtx = t THEN NoThread ELSE mtx

\* The caller takes the result; the locals of the call are gone.
Return(t) ==
    /\ pc[t] = "done"
    /\ UNCHANGED <<object, endpoint, peer>>
    /\ pc' = [pc EXCEPT ![t] = "idle"]
    /\ op' = [op EXCEPT ![t] = "none"]
    /\ result' = [result EXCEPT ![t] = NoResult]
    /\ garbage' = [garbage EXCEPT ![t] = FALSE]
    /\ first_time' = [first_time EXCEPT ![t] = TRUE]
    /\ rb' = [rb EXCEPT ![t] = <<>>]
    /\ chunks' = [chunks EXCEPT ![t] = <<>>]
    /\ UNCHANGED <<session, history>>

\* ------------------------------------------------------------ open()
\* open() without its first line: it goes for the lock whatever _sockfd holds.
open_unchecked(t) ==
    /\ pc[t] = "open"
    /\ UNCHANGED <<object, endpoint, peer>>
    /\ pc' = [pc EXCEPT ![t] = "open_lock"]
    /\ UNCHANGED <<session, op, locals, result, history>>

\* open() that takes every handle but -1 for a connection.
open_check_stale(t) ==
    /\ pc[t] = "open"
    /\ UNCHANGED <<object, endpoint, peer>>
    /\ IF sockfd # Unconnected
       THEN /\ Finish(t, Result("ok", <<>>, 72))
            /\ UNCHANGED <<sockfd, fdtab, wire, op, locals, history>>
       ELSE /\ pc' = [pc EXCEPT ![t] = "open_lock"]
            /\ UNCHANGED <<session, op, locals, result, history>>

\* if (connected()) return;   -- read before _mtx is taken
open_check(t) ==
    /\ pc[t] = "open"
    /\ UNCHANGED <<object, endpoint, peer>>
    /\ IF connected(sockfd)
       THEN /\ Finish(t, Result("ok", <<>>, 72))
            /\ UNCHANGED <<sockfd, fdtab, wire, op, locals, history>>
       ELSE /\ pc' = [pc EXCEPT ![t] = "open_lock"]
            /\ UNCHANGED <<session, op, locals, result, history>>

\* open() without the lock: it goes on whoever is inside.
open_nolock(t) ==
    /\ pc[t] = "open_lock"
    /\ UNCHANGED <<object, endpoint, peer>>
    /\ mtx' = t
    /\ pc' = [pc EXCEPT ![t] = "open_getaddrinfo"]
    /\ UNCHANGED <<sockfd, fdtab, wire, op, locals, result, history>>

\* std::lock_guard<std::mutex> lck(_mtx);
open_lock(t) ==
    /\ pc[t] = "open_lock"
    /\ UNCHANGED <<object, endpoint, peer>>
    /\ mtx = NoThread
    /\ mtx' = t
    /\ pc' = [pc EXCEPT ![t] = "open_getaddrinfo"]
    /\ UNCHANGED <<sockfd, fdtab, wire, op, locals, result, history>>

\* host and port are cut out of _uri; rc = getaddrinfo(host, port, ...);
\* if (rc) throw
open_getaddrinfo(t) ==
    /\ pc[t] = "open_getaddrinfo"
    /\ endpoint' = Endpoint(uri)
    /\ UNCHANGED <<object, peer>>
    /\ \E rc \in {0, 1} :
         IF rc # 0
         THEN /\ Finish(t, Result("ConnectionError", <<>>, 107))
              /\ UNCHANGED <<sockfd, fdtab, wire, op, locals, history>>
         ELSE /\ pc' = [pc EXCEPT ![t] = "open_socket"]
              /\ UNCHANGED <<session, op, locals, result, history>>

\* socket(): the lowest free descriptor, or -1 (none left, or any other error)
FreeFds == {f \in Fds : fdtab[f] = "free"}
LowestFree == CHOOSE f \in FreeFds : \A g \in FreeFds : f <= g
socket == {-1} \cup (IF FreeFds = {} THEN {} ELSE {LowestFree})

\* _sockfd = socket(...); if (0 > _sockfd) throw
open_socket(t) ==
    /\ pc[t] = "open_socket"
    /\ UNCHANGED <<object, endpoint>>
    /\ opened' = FALSE
    /\ ended' = FALSE
    /\ UNCHANGED <<eofSeen, closed>>
    /\ \E fd \in socket :
         /\ sockfd' = fd
         /\ IF 0 > fd
            THEN /\ Finish(t, Result("ConnectionError", <<>>, 116))
                 /\ UNCHANGED <<fdtab, wire, op, locals, peer>>
            ELSE /\ fdtab' = [fdtab EXCEPT ![fd] = "created"]
                 /\ wire' = [wire EXCEPT ![fd] = <<>>]
                 /\ inbuf' = [inbuf EXCEPT ![fd] = <<>>]
                 /\ served' = [served EXCEPT ![fd] = 0]
                 /\ pc' = [pc EXCEPT ![t] = "open_connect"]
                 /\ UNCHANGED <<mtx, op, locals, result>>

\* rc = connect(_sockfd, ...); if (0 > rc) throw   -- _sockfd keeps the socket
open_connect(t) ==
    /\ pc[t] = "open_connect"
    /\ UNCHANGED <<object, endpoint, peer>>
    /\ \E rc \in {0, -1} :
         IF 0 > rc
         THEN /\ Finish(t, Result("ConnectionError", <<>>, 125))
              /\ UNCHANGED <<sockfd, fdtab, wire, op, locals, history>>
         ELSE /\ fdtab' = [fdtab EXCEPT ![sockfd] = "established"]
              /\ pc' = [pc EXCEPT ![t] = "open_send"]
              /\ UNCHANGED <<sockfd, mtx, wire, op, locals, result, history>>

\* send(fd, buf, size, 0): -1, or the count of bytes the socket took, all of
\* them or the first of them. A descriptor that is no established stream
\* takes nothing.
send(fd, size) ==
    IF fd \in Fds /\ fdtab[fd] = "established" THEN {-1} \cup 1..size ELSE {-1}

Sent(fd, msg) == [wire EXCEPT ![fd] = Append(@, msg)]

\* setsockopt (best effort); rc = send(_sockfd, eval ...); if (0 > rc) throw;
\* do_recv();
open_send(t) ==
    /\ pc[t] = "open_send"
    /\ UNCHANGED <<object, endpoint, peer>>
    /\ \E rc \in send(sockfd, Size(eval)) :
         IF 0 > rc
         THEN /\ Finish(t, Result("TransportError", <<>>, 155))
              /\ UNCHANGED <<sockfd, fdtab, wire, op, locals, history>>
         ELSE /\ wire' = Sent(sockfd, eval)
              /\ pc' = [pc EXCEPT ![t] = "do_recv"]
              /\ garbage' = [garbage EXCEPT ![t] = DefaultGarbage]
              /\ UNCHANGED <<sockfd, mtx, fdtab, op, first_time, rb, chunks,
                             result, history>>

\* ----------------------------------------------------------- close()
\* close() without its last line: the descriptor is released, _sockfd keeps it.
close_keeps_handle(t) ==
    /\ pc[t] = "close"
    /\ UNCHANGED <<object, endpoint, peer>>
    /\ IF connected(sockfd)
       THEN fdtab' = [fdtab EXCEPT ![sockfd] = "free"]
       ELSE UNCHANGED fdtab
    /\ Finish(t, Result("ok", <<>>, 180))
    /\ closed' = TRUE
    /\ opened' = FALSE
    /\ ended' = (opened \/ ended)
    /\ UNCHANGED <<sockfd, wire, op, locals, eofSeen>>

\* close() without its first line: the handle is reset, nothing is released.
close_unreleased(t) ==
    /\ pc[t] = "close"
    /\ UNCHANGED <<object, endpoint, peer>>
    /\ sockfd' = Unconnected
    /\ Finish(t, Result("ok", <<>>, 180))
    /\ closed' = TRUE
    /\ opened' = FALSE
    /\ ended' = (opened \/ ended)
    /\ UNCHANGED <<fdtab, wire, op, locals, eofSeen>>

\* if (connected()) unistd_close(_sockfd); _sockfd = -1;
close(t) ==
    /\ pc[t] = "close"
    /\ UNCHANGED <<object, endpoint, peer>>
    /\ IF connected(sockfd)
       THEN fdtab' = [fdtab EXCEPT ![sockfd] = "free"]
       ELSE UNCHANGED fdtab
    /\ sockfd' = Unconnected
    /\ Finish(t, Result("ok", <<>>, 180))
    /\ closed' = TRUE
    /\ opened' = FALSE
    /\ ended' = (opened \/ ended)
    /\ UNCHANGED <<wire, op, locals, eofSeen>>

\* --------------------------------------------------------- do_send()
\* if (not connected()) throw; rc = send(...); if (0 > rc) throw;
do_send(t) ==
    /\ pc[t] = "do_send"
    /\ UNCHANGED <<object, endpoint, peer>>
    /\ IF ~connected(sockfd)
       THEN /\ Finish(t, Result("NotConnected", <<>>, 187))
            /\ UNCHANGED <<sockfd, fdtab, wire, op, locals, history>>
       ELSE /\ Len(wire[sockfd]) < MaxSent
            /\ \E str \in Cmds : \E rc \in send(sockfd, Size(str)) :
                 IF 0 > rc
                 THEN /\ Finish(t, Result("TransportError", <<>>, 191))
                      /\ UNCHANGED <<sockfd, fdtab, wire, op, locals, history>>
                 ELSE /\ wire' = Sent(sockfd, str)
                      /\ Finish(t, [Result("ok", <<>>, 193) EXCEPT !.taken = rc])
                      /\ UNCHANGED <<sockfd, fdtab, op, locals, history>>

\* --------------------------------------------------------- do_recv()
\* recv(_sockfd, buf, 4096, 0): -1, 0 (the peer closed), or a chunk.
\* A descriptor that is no established stream gives an error.
recv(fd) ==
    IF fd \in Fds /\ fdtab[fd] = "established"
    THEN {[len |-> -1, buf |-> <<>>], [len |-> 0, buf |-> <<>>]}
         \cup {[len |-> TextLen(c), buf |-> c] : c \in Chunks}
    ELSE {[len |-> -1, buf |-> <<>>]}

\* 1 == len and 0x16 == buf[0]
IsIdle(len, buf) == 1 = len /\ SYN = FirstByte(buf)

\* first_time and len < 4096 and (('\n' == buf[len-1]) or garbage)
ShortRead(first, len, buf, g) ==
    first /\ len < ChunkSize /\ (NL = LastByte(buf) \/ g)

\* The test one byte too far: buf[len], which is the NUL put there.
EndsLine_past(buf) == NL = NUL

\* '\n' == buf[len-1]
EndsLine(buf) == NL = LastByte(buf)

\* do_recv ends, by return or throw, with its locals at ft, acc and seen.
\* Inside open() the exit goes on out of open(), which throws the text away;
\* the caller of do_recv is shown the text and what was read.
Leave(t, what, str, ln, ft, acc, seen) ==
    /\ UNCHANGED garbage
    /\ IF op[t] = "open"
       THEN /\ Finish(t, Result(what, <<>>, ln))
            /\ first_time' = [first_time EXCEPT ![t] = TRUE]
            /\ rb' = [rb EXCEPT ![t] = <<>>]
            /\ chunks' = [chunks EXCEPT ![t] = <<>>]
       ELSE /\ Finish(t, Result(what, str, ln))
            /\ first_time' = [first_time EXCEPT ![t] = ft]
            /\ rb' = [rb EXCEPT ![t] = acc]
            /\ chunks' = [chunks EXCEPT ![t] = seen]

\* if (not connected()) throw; std::string rb; bool first_time = true;
do_recv(t) ==
    /\ pc[t] = "do_recv"
    /\ UNCHANGED <<object, endpoint, peer>>
    /\ IF ~connected(sockfd)
       THEN /\ Finish(t, Result("NotConnected", <<>>, 201))
            /\ UNCHANGED <<sockfd, fdtab, wire, op, locals, history>>
       ELSE /\ pc' = [pc EXCEPT ![t] = "recv"]
            /\ first_time' = [first_time EXCEPT ![t] = TRUE]
            /\ rb' = [rb EXCEPT ![t] = <<>>]
            /\ chunks' = [chunks EXCEPT ![t] = <<>>]
            /\ UNCHANGED <<session, op, garbage, result, history>>

\* The first test taking a zero-length read along: 0 >= len.
ReadFailed_or_empty(len) == 0 >= len

\* if (0 > len) throw ...;  and  if (0 == len) { close; _sockfd = 0; throw ... }
ReadFailed(len) == 0 > len
ReadEmpty(len) == 0 = len

\* One turn of while (true): what follows a recv() that gave r. The chunks
\* of the call keep what recv() gave, an empty chunk for a zero-length read.
do_recv_turn(t, r) ==
    LET seen == IF 0 <= r.len THEN Append(chunks[t], r.buf) ELSE chunks[t]
        acc == Cat(rb[t], c_str(r.buf))
    IN
    IF ReadFailed(r.len)
    THEN /\ Leave(t, "TransportError", <<>>, 218, first_time[t], rb[t], seen)
         /\ UNCHANGED <<sockfd, fdtab, wire, op, history>>
    ELSE IF ReadEmpty(r.len)
    THEN /\ fdtab' = [fdtab EXCEPT ![sockfd] = "free"]
         /\ sockfd' = PeerGone
         /\ eofSeen' = TRUE
         /\ opened' = FALSE
         /\ ended' = (opened \/ ended)
         /\ Leave(t, "PeerClosed", <<>>, 225, first_time[t], rb[t], seen)
         /\ UNCHANGED <<wire, op>>
    ELSE IF IsIdle(r.len, r.buf)
    THEN /\ chunks' = [chunks EXCEPT ![t] = seen]
         /\ UNCHANGED <<session, pc, op, garbage, first_time, rb, result,
                        history>>
    ELSE IF ShortRead(first_time[t], r.len, r.buf, garbage[t])
    THEN /\ Leave(t, "ok", c_str(r.buf), 241, first_time[t], rb[t], seen)
         /\ eofSeen' = IF op[t] = "open" THEN FALSE ELSE eofSeen
         /\ opened' = IF op[t] = "open" THEN TRUE ELSE opened
         /\ UNCHANGED ended
         /\ UNCHANGED <<sockfd, fdtab, wire, op>>
    ELSE IF EndsLine(r.buf)
    THEN /\ Leave(t, "ok", acc, 249, FALSE, acc, seen)
         /\ eofSeen' = IF op[t] = "open" THEN FALSE ELSE eofSeen
         /\ opened' = IF op[t] = "open" THEN TRUE ELSE opened
         /\ UNCHANGED ended
         /\ UNCHANGED <<sockfd, fdtab, wire, op>>
    ELSE /\ chunks' = [chunks EXCEPT ![t] = seen]
         /\ first_time' = [first_time EXCEPT ![t] = FALSE]
         /\ rb' = [rb EXCEPT ![t] = acc]
         /\ UNCHANGED <<session, pc, op, garbage, result, history>>

\* len = recv(_sockfd, buf, 4096, 0) from a peer that may send anything.
do_recv_read(t) ==
    /\ pc[t] = "recv"
    /\ UNCHANGED <<object, endpoint, peer>>
    /\ Len(chunks[t]) < MaxReads
    /\ UNCHANGED closed
    /\ \E r \in recv(sockfd) : do_recv_turn(t, r)

\* --------------------------------------------------- the stub server
\* The server of the end-to-end scenario: it answers the handshake command
\* with an unterminated prompt and a command with one line.
Greeting == <<Run(62, 1), Run(32, 1)>>
Pong == <<Run(112, 1), Run(111, 1), Run(110, 1), Run(103, 1), Run(NL, 1)>>
Reply(cmd) == IF cmd = eval THEN Greeting ELSE Pong

Owed(fd) == fdtab[fd] = "established" /\ served[fd] < Len(wire[fd])

stub_serve ==
    \E fd \in Fds :
        /\ Owed(fd)
        /\ inbuf' = [inbuf EXCEPT ![fd] = Cat(@, Reply(wire[fd][served[fd] + 1]))]
        /\ served' = [served EXCEPT ![fd] = @ + 1]
        /\ UNCHANGED <<session, pc, op, locals, result, history, object, endpoint>>

\* recv() on a stream the stub server writes to: any first part of what has
\* arrived, at most ChunkSize bytes of it; nothing there, the call blocks.
stub_recv(fd) ==
    IF fd \in Fds /\ fdtab[fd] = "established"
    THEN {[len |-> k, buf |-> Take(inbuf[fd], k)] :
             k \in 1..(IF TextLen(inbuf[fd]) < ChunkSize
                       THEN TextLen(inbuf[fd]) ELSE ChunkSize)}
    ELSE {[len |-> -1, buf |-> <<>>]}

stub_do_recv_read(t) ==
    /\ pc[t] = "recv"
    /\ UNCHANGED <<object, endpoint, served>>
    /\ Len(chunks[t]) < MaxReads
    /\ UNCHANGED closed
    /\ \E r \in stub_recv(sockfd) :
         /\ do_recv_turn(t, r)
         /\ inbuf' = IF 0 < r.len
                     THEN [inbuf EXCEPT ![sockfd] = Drop(@, r.len)]
                     ELSE inbuf

\* ------------------------------------------------------------------
Next ==
    \E t \in Threads :
        \/ call_open(t)
        \/ call_close(t)
        \/ call_do_send(t)
        \/ call_do_recv(t)
        \/ open_check(t)
        \/ open_lock(t)
        \/ open_getaddrinfo(t)
        \/ open_socket(t)
        \/ open_connect(t)
        \/ open_send(t)
        \/ close(t)
        \/ do_send(t)
        \/ do_recv(t)
        \/ do_recv_read(t)
        \/ Return(t)

Spec == Init /\ [][Next]_vars

\* Construction with any identifier, and what open() makes of it up to
\* getaddrinfo(), for one caller.
ParseInit ==
    /\ Start
    /\ name \in Names
    /\ uri = <<>>
    /\ made = "new"

ParseNext ==
    \/ CogSimpleStorage
    \/ \E t \in {Smallest(Threads)} :
        \/ call_open(t)
        \/ open_check(t)
        \/ open_lock(t)
        \/ open_getaddrinfo(t)
        \/ Return(t)

ParseSpec == ParseInit /\ [][ParseNext]_vars

\* The same callers against the stub server.
StubNext ==
    \/ \E t \in Threads :
        \/ call_open(t)
        \/ call_close(t)
        \/ call_do_send(t)
        \/ call_do_recv(t)
        \/ open_check(t)
        \/ open_lock(t)
        \/ open_getaddrinfo(t)
        \/ open_socket(t)
        \/ open_connect(t)
        \/ open_send(t)
        \/ close(t)
        \/ do_send(t)
        \/ do_recv(t)
        \/ stub_do_recv_read(t)
        \/ Return(t)
    \/ stub_serve

StubSpec == Init /\ [][StubNext]_vars

\* ================================================================ claims
Established(fd) == fd \in Fds /\ fdtab[fd] = "established"
NoneInOpen == \A t \in Threads : op[t] # "open"
Returned(t, o) == pc[t] = "done" /\ op[t] = o /\ result[t].outcome = "ok"

\* The chunks of a call that carry data (not the lone byte 0x16, not the empty
\* chunk of a zero-length read), and their bytes in order.
Data(cs) == SelectSeq(cs, LAMBDA c : c \notin {IdleChunk, <<>>})
RECURSIVE Join(_)
Join(cs) == IF cs = <<>> THEN <<>> ELSE Cat(Head(cs), Join(Tail(cs)))
Short(c) == TextLen(c) < ChunkSize
EndsInNewline(c) == c[Len(c)].b = NL

\* C1: of the callers that call open() concurrently on a Disconnected session
\* exactly one creates the socket, connects and sends the handshake; the others
\* see connected() and return. Hence no caller stands inside the connect section,
\* about to create a socket, when another caller's open() has succeeded and the
\* session holds its connection.
C1_OneCallerConnects ==
    \A t \in Threads :
        pc[t] = "open_socket"
        => ~(Established(sockfd) /\ \E u \in Threads \ {t} : Returned(u, "open"))

\* C2: the socket handle is a not-connected sentinel or the descriptor of a
\* stream on which connect succeeded, also in the states an open() that failed
\* leaves behind (stated for the states in which no caller holds the mutex).
C2_HandleSentinelOrEstablished ==
    mtx = NoThread =>
        \/ sockfd \in {Unconnected, PeerGone}
        \/ Established(sockfd)

\* C3: an open() that failed with ConnectionError leaves the session
\* Disconnected: connected() is false when it throws, so that a later open()
\* tries again instead of returning at once.
C3_FailedOpenLeavesDisconnected ==
    \A t \in Threads :
        (pc[t] = "done" /\ op[t] = "open"
            /\ result[t].outcome = "ConnectionError" /\ OthersIdle(t))
        => ~connected(sockfd)

\* C4: open() on a Connected session returns at once and changes nothing: no
\* lock, no socket, no handshake, the descriptor as it was; and no connection
\* ever carries the handshake command twice.
C4_OpenIdempotent ==
    /\ [][\A t \in Threads :
            (pc[t] = "open" /\ Established(sockfd) /\ pc'[t] # "open")
            => /\ pc'[t] = "done"
               /\ result'[t] = Result("ok", <<>>, 72)
               /\ UNCHANGED <<sockfd, mtx, fdtab, wire>>]_vars
    /\ [](\A fd \in Fds :
            Cardinality({i \in DOMAIN wire[fd] : wire[fd][i] = eval}) <= 1)

C4_Witness ==
    \E t \in Threads :
        /\ pc[t] = "done" /\ op[t] = "open" /\ result[t].line = 72
        /\ Established(sockfd) /\ wire[sockfd] = <<eval>>

\* C5: once close() has returned, and until open() is called again, connected()
\* is false, and a send or receive fails with NotConnected, reads and writes
\* nothing on any socket and leaves the session as it was.
C5_AfterClose ==
    /\ [](closed => ~connected(sockfd))
    /\ [][\A t \in Threads :
            (closed /\ pc[t] \in {"do_send", "do_recv"} /\ pc'[t] # pc[t])
            => /\ pc'[t] = "done"
               /\ result'[t].outcome = "NotConnected"
               /\ chunks'[t] = <<>>
               /\ UNCHANGED <<sockfd, mtx, fdtab, wire>>]_vars

C5_Witness ==
    \E t \in Threads :
        /\ closed /\ pc[t] = "done" /\ op[t] \in {"send", "recv"}
        /\ result[t].outcome = "NotConnected"
        /\ sockfd = Unconnected
        /\ \E f \in Fds : fdtab[f] = "free" /\ wire[f] # <<>>

\* C6: a zero-length read makes receive() fail with PeerClosed and no text,
\* and from then on connected() is false until an open() has succeeded.
C6_PeerClosedUntilReopened ==
    /\ \A t \in Threads :
         (pc[t] = "done" /\ op[t] = "recv" /\ result[t].outcome = "PeerClosed")
         => ~connected(sockfd) /\ result[t].text = <<>>
    /\ (eofSeen /\ NoneInOpen) => ~connected(sockfd)

\* C7: open() sends the handshake command once and then does one receive with
\* the greeting flag set, so that it returns as soon as one short chunk has
\* arrived: a caller still inside open()'s receive has read no short data chunk.
C7_HandshakeThenGreeting ==
    \A t \in Threads :
        (op[t] = "open" /\ pc[t] \in {"do_recv", "recv"})
        => /\ wire[sockfd] = <<eval>>
           /\ \A i \in DOMAIN chunks[t] :
                chunks[t][i] = IdleChunk \/ ~Short(chunks[t][i])

\* C8: a chunk that is the lone byte 0x16 is dropped wherever it comes: when a
\* receive() that read such chunks returns, its text is the bytes of the other
\* chunks and nothing else (0x16 then a short line returns exactly the line).
C8_IdleChunksDropped ==
    \A t \in Threads :
        (Returned(t, "recv") /\ \E i \in DOMAIN chunks[t] : chunks[t][i] = IdleChunk)
        => result[t].text = Join(Data(chunks[t]))

\* C9: with the greeting flag, a first data chunk that is short and does not
\* end in a newline is returned as it is, after that read and no other; without
\* the flag the call does not return it and reads on.
C9_GreetingFastPath ==
    \A t \in Threads :
        LET d == Data(chunks[t]) IN
        (op[t] = "recv" /\ pc[t] \in {"recv", "done"} /\ d # <<>>
            /\ Short(d[1]) /\ ~EndsInNewline(d[1]))
        => IF garbage[t]
           THEN /\ Returned(t, "recv")
                /\ result[t].text = d[1]
                /\ Len(d) = 1 /\ chunks[t][Len(chunks[t])] = d[1]
           ELSE ~(Returned(t, "recv") /\ Len(d) = 1)

\* C10: without the greeting flag receive() returns at the first data chunk that
\* ends in a newline and not before, its text is the data chunks read, in order,
\* up to and including that one, and that chunk is the last it read.
C10_ReturnsAtFirstNewline ==
    \A t \in Threads :
        LET cs == chunks[t]
            d == Data(cs)
        IN
        (op[t] = "recv" /\ ~garbage[t])
        => /\ pc[t] = "recv" => \A i \in DOMAIN d : ~EndsInNewline(d[i])
           /\ Returned(t, "recv")
              => /\ d # <<>> /\ cs[Len(cs)] = d[Len(d)]
                 /\ \A i \in DOMAIN d : EndsInNewline(d[i]) <=> i = Len(d)
                 /\ result[t].text = Join(d)

\* C11: end to end against the stub server, which answers the handshake
\* command with an unterminated prompt and "ping\n" with "pong\n": open() is
\* not left waiting once the server has answered the handshake and all of its
\* answer has been read, and a receive() that follows a send returns exactly
\* "pong\n", however the transport cuts the server's bytes into chunks.
C11_PingPong ==
    \A t \in Threads :
        /\ (op[t] = "open" /\ pc[t] = "recv" /\ Established(sockfd))
           => (inbuf[sockfd] # <<>> \/ Owed(sockfd))
        /\ (Returned(t, "recv") /\ ~garbage[t] /\ Established(sockfd))
           => result[t].text = Pong

\* getaddrinfo() has been called with the endpoint.
Asked ==
    \E t \in Threads :
        \/ pc[t] = "open_socket"
        \/ pc[t] = "done" /\ result[t].line = 107
HasScheme(n) == Len(n) >= Len(cog) /\ SubSeq(n, 1, Len(cog)) = cog
HostChars(n, a, b) == \A k \in a..b : n[k] \notin {":", "/"}
Digits(n, a, b) == a <= b /\ \A k \in a..b : n[k] \in {"0", "1", "7"}

\* C12: for an identifier cog://h:p/n (h without ':' and '/', p decimal) the
\* endpoint open() resolves has host h and port p, whatever n is; and an
\* identifier that does not start with cog:// fails with InvalidURI in the
\* constructor, before any call and any network I/O.
C12_HostAndPort ==
    /\ made # "new" => (made = "InvalidURI" <=> ~HasScheme(name))
    /\ made = "InvalidURI"
       => /\ ~Asked /\ endpoint = NoEndpoint /\ sockfd = Unconnected
          /\ \A f \in Fds : fdtab[f] = "free"
          /\ \A t \in Threads : pc[t] = "idle"
    /\ (Asked /\ HasScheme(name))
       => \A i, j \in (URIX_LEN + 1)..Len(name) :
            (/\ name[i] = ":" /\ HostChars(name, URIX_LEN + 1, i - 1)
             /\ name[j] = "/" /\ Digits(name, i + 1, j - 1))
            => /\ endpoint.host = SubSeq(name, URIX_LEN + 1, i - 1)
               /\ endpoint.port = SubSeq(name, i + 1, j - 1)

C12_Witness ==
    /\ Asked
    /\ name = cog \o <<"h", ":", "7", "/", ":">>
    /\ endpoint = [host |-> <<"h">>, port |-> <<"7">>]

\* C13: for an identifier cog://h/n or cog://h, with a host h that is not empty
\* and no ':' after it, the endpoint has host h and the default port 17001,
\* whatever characters n holds, ':' and '/' among them.
C13_DefaultPort ==
    (Asked /\ HasScheme(name))
    => /\ (Len(name) > URIX_LEN /\ HostChars(name, URIX_LEN + 1, Len(name)))
          => endpoint = [host |-> SubSeq(name, URIX_LEN + 1, Len(name)),
                         port |-> DEFAULT_COGSERVER_PORT]
       /\ \A i \in (URIX_LEN + 2)..Len(name) :
            (name[i] = "/" /\ HostChars(name, URIX_LEN + 1, i - 1))
            => endpoint = [host |-> SubSeq(name, URIX_LEN + 1, i - 1),
                           port |-> DEFAULT_COGSERVER_PORT]

\* The session is Connected: open() succeeded and the handle still holds the
\* stream it left.
Connected == opened /\ Established(sockfd)

\* C14: a send() on a Connected session ends in one of two ways: it throws
\* TransportError and the socket took nothing, or it returns and the socket
\* took every byte of the text; it does not return after a short write.
C14_SendAllOrFail ==
    \A t \in Threads :
        (pc[t] = "done" /\ op[t] = "send" /\ Connected)
        => \/ result[t].outcome = "TransportError" /\ result[t].taken = 0
           \/ /\ result[t].outcome = "ok"
              /\ result[t].taken = Size(wire[sockfd][Len(wire[sockfd])])

\* C15: close() from any state ends with the handle at -1; it releases the
\* descriptor of the handle if connected() holds and nothing otherwise (so
\* nothing after a PeerClosed receive or another close()); and the handle
\* never names a released descriptor, in close() or in do_recv's loop, so that
\* no descriptor is released twice.
C15_CloseReleasesOnce ==
    /\ [](connected(sockfd) => sockfd \in Fds /\ fdtab[sockfd] # "free")
    /\ [](\A t \in Threads : pc[t] = "recv" => connected(sockfd))
    /\ [][\A t \in Threads :
            (pc[t] = "close" /\ pc'[t] # "close")
            => /\ pc'[t] = "done" /\ result'[t].outcome = "ok"
               /\ sockfd' = Unconnected
               /\ fdtab' = IF connected(sockfd)
                           THEN [fdtab EXCEPT ![sockfd] = "free"]
                           ELSE fdtab]_vars

C15_Witness ==
    \E t \in Threads :
        /\ pc[t] = "done" /\ op[t] = "close" /\ eofSeen
        /\ sockfd = Unconnected
        /\ \A f \in Fds : fdtab[f] = "free"
        /\ \E f \in Fds : wire[f] # <<>>

\* C16: an open() called after close() or a PeerClosed receive ended a Connected
\* session does not return at line 72 but goes through the whole sequence
\* again: it resolves the endpoint, makes a socket that was free and has
\* carried nothing, connects it, sends the handshake command on it once and
\* receives; if that receive returns, the session is Connected on that socket.
C16_ReopenRunsAll ==
    /\ [](ended => ~connected(sockfd))
    /\ [][\A t \in Threads :
            (ended /\ pc[t] = "open" /\ pc'[t] # "open")
            => pc'[t] = "open_lock" /\ UNCHANGED <<sockfd, fdtab, wire>>]_vars
    /\ [][\A t \in Threads :
            (pc[t] = "open_socket" /\ pc'[t] = "open_connect")
            => /\ endpoint = Endpoint(uri)
               /\ sockfd' \in Fds /\ fdtab[sockfd'] = "free"
               /\ fdtab'[sockfd'] = "created" /\ wire'[sockfd'] = <<>>]_vars
    /\ [](\A t \in Threads :
            op[t] = "open"
            => /\ pc[t] = "open_connect"
                  => fdtab[sockfd] = "created" /\ wire[sockfd] = <<>>
               /\ pc[t] = "open_send"
                  => Established(sockfd) /\ wire[sockfd] = <<>>
               /\ pc[t] \in {"do_recv", "recv"}
                  => Established(sockfd) /\ wire[sockfd] = <<eval>>)
    /\ [][\A t \in Threads :
            (op[t] = "open" /\ pc[t] = "recv" /\ pc'[t] = "done"
                /\ result'[t].outcome = "ok")
            => /\ sockfd' = sockfd /\ Established(sockfd')
               /\ wire'[sockfd'] = <<eval>> /\ opened']_vars

C16_Witness ==
    \E t \in Threads :
        /\ op[t] = "open" /\ pc[t] = "open_socket" /\ ended
        /\ endpoint = Endpoint(uri)
        /\ \E f \in Fds : fdtab[f] = "free" /\ wire[f] # <<>>

\* The caller is in the connect section of open(): past the lock, not yet out.
InSection(t) ==
    /\ op[t] = "open"
    /\ pc[t] \in {"open_getaddrinfo", "open_socket", "open_connect", "open_send",
                  "do_recv", "recv"}

\* C17: at most one caller is in the connect section of open() at a time, and
\* a caller holds the mutex exactly while it is there: when open() has
\* returned or thrown, the mutex is no longer its.
C17_OneInConnectSection ==
    /\ Cardinality({t \in Threads : InSection(t)}) <= 1
    /\ \A t \in Threads : mtx = t <=> InSection(t)

C17_Witness ==
    \E t, u \in Threads :
        /\ pc[t] = "done" /\ op[t] = "open"
        /\ result[t].outcome \in {"ConnectionError", "TransportError", "PeerClosed"}
        /\ InSection(u) /\ mtx = u

\* C18: receive() ends exactly when a chunk completes a frame, the peer has
\* closed, or the read failed. A turn of its loop that read a chunk ending in
\* a newline (or, with the greeting flag, a short first data chunk) returns; a
\* zero-length read throws PeerClosed; a failed read throws TransportError; a
\* turn that read a lone 0x16 or, without the flag, a chunk not ending in a
\* newline stays in the loop; and nothing else takes the call out of the loop.
C18_ReceiveEndsAtFrame ==
    [][\A t \in Threads :
        (op[t] = "recv" /\ pc[t] = "recv")
        => \/ pc'[t] = "recv" /\ chunks'[t] = chunks[t]
           \/ /\ chunks'[t] = chunks[t]
              /\ pc'[t] = "done" /\ result'[t].outcome = "TransportError"
           \/ /\ Len(chunks'[t]) = Len(chunks[t]) + 1
              /\ SubSeq(chunks'[t], 1, Len(chunks[t])) = chunks[t]
              /\ LET c == chunks'[t][Len(chunks'[t])]
                     first == Data(chunks[t]) = <<>>
                 IN IF c = <<>>
                    THEN pc'[t] = "done" /\ result'[t].outcome = "PeerClosed"
                    ELSE IF c = IdleChunk \/ (~garbage[t] /\ ~EndsInNewline(c))
                    THEN pc'[t] = "recv"
                    ELSE IF EndsInNewline(c) \/ (first /\ Short(c))
                    THEN pc'[t] = "done" /\ result'[t].outcome = "ok"
                    ELSE pc'[t] = "recv"]_vars

C18_Witness ==
    \E t \in Threads :
        /\ op[t] = "recv" /\ pc[t] = "recv" /\ ~garbage[t]
        /\ chunks[t] = <<IdleChunk, Prompt>>

\* C19: TransportError and PeerClosed are told apart and act differently. A
\* call that throws TransportError leaves the handle and the descriptors as
\* they were, connected() still true; a call that throws PeerClosed has
\* released the descriptor of the handle and connected() is false. A receive()
\* throws PeerClosed exactly when its read was a zero-length read, and
\* TransportError exactly when its read failed.
C19_ErrorKinds ==
    [][\A t \in Threads :
        (pc[t] # "done" /\ pc'[t] = "done")
        => /\ result'[t].outcome = "TransportError"
              => UNCHANGED <<sockfd, fdtab>> /\ connected(sockfd')
           /\ result'[t].outcome = "PeerClosed"
              => /\ connected(sockfd) /\ fdtab[sockfd] # "free"
                 /\ fdtab' = [fdtab EXCEPT ![sockfd] = "free"]
                 /\ ~connected(sockfd')
           /\ (op[t] = "recv" /\ pc[t] = "recv")
              => /\ result'[t].outcome = "PeerClosed"
                    <=> chunks'[t] = Append(chunks[t], <<>>)
                 /\ result'[t].outcome = "TransportError"
                    <=> chunks'[t] = chunks[t]]_vars

C19_Witness ==
    \E t \in Threads :
        /\ pc[t] = "done" /\ op[t] = "recv" /\ result[t].line = 218
        /\ result[t].outcome = "TransportError"
        /\ Connected /\ connected(sockfd)

\* C20: no descriptor is leaked: a descriptor that is not released is the one
\* in the handle, so there is at most one; and after close() has returned,
\* until open() is called again, none is unreleased.
C20_NoLeak ==
    /\ \A f \in Fds : fdtab[f] # "free" => sockfd = f
    /\ closed => \A f \in Fds : fdtab[f] = "free"

====
